---- MODULE Spec2Model ----
(***************************************************************************)
(* The GameClient of src/unnamed/part_000 (the later of the two versions   *)
(* the file holds, lines 366-814): key handlers, client-side movement      *)
(* prediction, the WebSocket message handler and the camera.               *)
(*                                                                         *)
(* JavaScript object identity is kept: `players` holds, for every id, the  *)
(* fields of the object the store holds under that id, and `myPlayer` says *)
(* whether this.myPlayer is null/undefined, is that very store object      *)
(* (Shared) or is an object that only this.myPlayer still references       *)
(* (Own(fields)): a store entry that is replaced or deleted while          *)
(* this.myPlayer points to it lives on as an Own object.                   *)
(*                                                                         *)
(* cameraX and cameraY are kept in half pixels (twice the source's value), *)
(* so that canvas.width / 2 is exact for odd widths as well.               *)
(*                                                                         *)
(* A handler and the microtasks it leaves behind are one action: a render  *)
(* pass runs on until renderAvatar has to wait for an image.  `passes`     *)
(* holds the render passes that wait for an image, one load each;          *)
(* `imageCache` holds the pairs <<key, frame identifier>> of the Map.      *)
(* `passLimit` is how many waiting passes a specification follows at a     *)
(* time: with 0, render is followed up to its first wait only.  A waiting  *)
(* pass keeps the fields its player had when the wait began.               *)
(*                                                                         *)
(* History variables: `lastEvent` is the event handled last, `sent` the    *)
(* messages its handler passed to socket.send, `atSend` the fields of      *)
(* this.myPlayer at the moment of that call, and `painted` the ids of the  *)
(* players drawn while the event was handled, in order.                    *)
(***************************************************************************)
EXTENDS Integers, Sequences, FiniteSets, TLC

VARIABLES socket, pressedKeys, lastSentDirection, isMoving,
          myPlayerId, players, avatars, myPlayer,
          canvas, cameraX, cameraY,
          imageCache, passes, passLimit, painted,
          sent, atSend, lastEvent

vars == <<socket, pressedKeys, lastSentDirection, isMoving,
          myPlayerId, players, avatars, myPlayer,
          canvas, cameraX, cameraY,
          imageCache, passes, passLimit, painted,
          sent, atSend, lastEvent>>

----------------------------------------------------------------------------
(* Program constants *)

worldWidth == 2048
worldHeight == 2048
moveSpeed == 16

(* Bounds of the model *)

\* local moves are followed while the controlled player stays within Reach
\* steps of an edge of the world on each axis (or outside the world)
Reach == 1
\* render passes that wait for an image at the same time
MaxPasses == 2

----------------------------------------------------------------------------
(* Inputs *)

\* pressedKeys' own keys, in insertion order (Object.entries/Object.values order)
Keys == <<"ArrowUp", "ArrowDown", "ArrowLeft", "ArrowRight">>
ArrowKeys == {Keys[i] : i \in 1..Len(Keys)}
\* key codes a keyboard event may carry: the arrows and one other key
KeyCodes == ArrowKeys \cup {"Space"}

PlayerIds == {"p1", "p2"}
AvatarNames == {"a1"}
\* avatar definitions: frames maps a stored direction to its frame identifiers
AvatarDefs == {[frames |-> [north |-> <<"n1">>, south |-> <<"s1">>, east |-> <<"e1">>]],
               [frames |-> [north |-> <<"n2">>, south |-> <<"s2">>, east |-> <<"e2">>]]}

\* positions an inbound message may carry: near the origin, near the far
\* corner, in the middle of the world, and outside the world
InPositions == {<<5, 5>>, <<2040, 2040>>, <<1000, 1000>>, <<2056, -11>>}
MsgFacings == {"south"}
\* window.innerWidth x window.innerHeight: smaller than the world, as high as
\* the world with an odd width, and wider than the world
ViewSizes == {<<800, 600>>, <<1025, 2048>>, <<2560, 1440>>}

Null == [ref |-> "null"]
Shared == [ref |-> "store"]
Own(obj) == [ref |-> "own", obj |-> obj]
\* a key that an object (players, avatars, a message's map) does not have
Absent == [absent |-> TRUE]

MsgPlayers == {[x |-> p[1], y |-> p[2], facing |-> f, avatar |-> a] :
                 p \in InPositions, f \in MsgFacings, a \in AvatarNames}
PlayerMaps == [PlayerIds -> MsgPlayers \cup {Absent}]
AvatarMaps == [AvatarNames -> AvatarDefs \cup {Absent}]

Messages ==
       [action : {"join_game"}, success : {TRUE}, playerId : PlayerIds,
        players : PlayerMaps, avatars : AvatarMaps]
  \cup [action : {"join_game"}, success : {FALSE}]
  \cup [action : {"player_joined"}, id : PlayerIds, player : MsgPlayers,
        name : AvatarNames, avatar : AvatarDefs]
  \cup [action : {"players_moved"}, players : PlayerMaps]
  \cup [action : {"player_left"}, playerId : PlayerIds]
  \cup [action : {"move", "stop"}, success : BOOLEAN]
  \cup [action : {"ping"}]

----------------------------------------------------------------------------
(* Helpers *)

Max(a, b) == IF a >= b THEN a ELSE b
Min(a, b) == IF a <= b THEN a ELSE b

\* the object this.myPlayer refers to, Absent when it is null/undefined
Deref(mp, pl, id) ==
  CASE mp.ref = "null" -> Absent
    [] mp.ref = "store" -> pl[id]
    [] mp.ref = "own" -> mp.obj

MyPlayerObj == Deref(myPlayer, players, myPlayerId)

keyCodeToDirection(keyCode) ==
  CASE keyCode = "ArrowUp" -> "up"
    [] keyCode = "ArrowDown" -> "down"
    [] keyCode = "ArrowLeft" -> "left"
    [] keyCode = "ArrowRight" -> "right"
    [] OTHER -> "undefined"

\* calculateNewPosition without Math.max / Math.min
calculateNewPosition_NoClamp(p, direction) ==
  IF p = Absent THEN [x |-> 0, y |-> 0]
  ELSE CASE direction = "up" -> [x |-> p.x, y |-> p.y - moveSpeed]
         [] direction = "down" -> [x |-> p.x, y |-> p.y + moveSpeed]
         [] direction = "left" -> [x |-> p.x - moveSpeed, y |-> p.y]
         [] direction = "right" -> [x |-> p.x + moveSpeed, y |-> p.y]
         [] OTHER -> [x |-> p.x, y |-> p.y]

calculateNewPosition(p, direction) ==
  IF p = Absent THEN [x |-> 0, y |-> 0]
  ELSE CASE direction = "up" -> [x |-> p.x, y |-> Max(0, p.y - moveSpeed)]
         [] direction = "down" -> [x |-> p.x, y |-> Min(worldHeight, p.y + moveSpeed)]
         [] direction = "left" -> [x |-> Max(0, p.x - moveSpeed), y |-> p.y]
         [] direction = "right" -> [x |-> Min(worldWidth, p.x + moveSpeed), y |-> p.y]
         [] OTHER -> [x |-> p.x, y |-> p.y]

\* updateMyPosition without Math.max / Math.min
updateMyPosition_NoClamp(p, direction) ==
  CASE direction = "up" -> [p EXCEPT !.y = p.y - moveSpeed]
    [] direction = "down" -> [p EXCEPT !.y = p.y + moveSpeed]
    [] direction = "left" -> [p EXCEPT !.x = p.x - moveSpeed]
    [] direction = "right" -> [p EXCEPT !.x = p.x + moveSpeed]
    [] OTHER -> p

\* the fields of this.myPlayer after updateMyPosition (p is not Absent)
updateMyPosition(p, direction) ==
  CASE direction = "up" -> [p EXCEPT !.y = Max(0, p.y - moveSpeed)]
    [] direction = "down" -> [p EXCEPT !.y = Min(worldHeight, p.y + moveSpeed)]
    [] direction = "left" -> [p EXCEPT !.x = Max(0, p.x - moveSpeed)]
    [] direction = "right" -> [p EXCEPT !.x = Min(worldWidth, p.x + moveSpeed)]
    [] OTHER -> p

\* updateCamera that centres the camera and does not clamp it
updateCamera_NoClamp(p, cv, cam) ==
  IF p = Absent THEN cam
  ELSE [x |-> 2 * p.x - cv[1], y |-> 2 * p.y - cv[2]]

\* cameraX, cameraY (in half pixels) after updateCamera; p is MyPlayerObj
updateCamera(p, cv, cam) ==
  IF p = Absent THEN cam
  ELSE [x |-> Max(0, Min(2 * p.x - cv[1], 2 * (worldWidth - cv[1]))),
        y |-> Max(0, Min(2 * p.y - cv[2], 2 * (worldHeight - cv[2])))]

\* the part of the world the model follows local moves in
NearEdge(c, size) == c <= Reach * moveSpeed \/ c >= size - Reach * moveSpeed
Explored(p) == NearEdge(p.x, worldWidth) /\ NearEdge(p.y, worldHeight)

----------------------------------------------------------------------------
(* Avatar resolution and the render pass *)

\* player.facing || 'south'
facingOf(player) == IF player.facing = "undefined" THEN "south" ELSE player.facing

\* player.animationFrame || 0: no message of the model carries animationFrame
frameOf(player) == 0

actualDirection(direction) ==
  IF direction = "left" \/ direction = "west" THEN "east" ELSE direction

shouldFlip(direction) == direction = "left" \/ direction = "west"

\* this.avatars[player.avatar] is there
knownAvatar(av, player) ==
  player.avatar \in DOMAIN av /\ av[player.avatar] # Absent

\* avatar.frames[dir]?.[frame], "undefined" when there is none
frameData(avatar, dir, frame) ==
  IF dir \in DOMAIN avatar.frames /\ frame + 1 \in DOMAIN avatar.frames[dir]
  THEN avatar.frames[dir][frame + 1]
  ELSE "undefined"

\* the cache key built from the resolved direction instead of the facing
cacheKey_Resolved(name, direction, frame) ==
  name \o "_" \o actualDirection(direction) \o "_" \o ToString(frame)

\* `${player.avatar}_${direction}_${frame}`
cacheKey(name, direction, frame) ==
  name \o "_" \o direction \o "_" \o ToString(frame)

\* renderAvatar up to the cache lookup: what it would paint for player, or
\* skip when it returns before it
resolve(av, player) ==
  IF ~knownAvatar(av, player) THEN [skip |-> TRUE]
  ELSE LET direction == facingOf(player)
           frame == frameOf(player)
           src == frameData(av[player.avatar], actualDirection(direction), frame)
       IN  IF src = "undefined" THEN [skip |-> TRUE]
           ELSE [skip |-> FALSE,
                 actualDirection |-> actualDirection(direction),
                 shouldFlip |-> shouldFlip(direction),
                 frameData |-> src,
                 cacheKey |-> cacheKey(player.avatar, direction, frame)]

\* imageCache.has(key)
cacheHas(cache, key) == \E e \in cache : e[1] = key
\* imageCache.set(key, img), img loaded from src
cacheSet(cache, key, src) == {e \in cache : e[1] # key} \cup {<<key, src>>}

\* the order in which `for (const playerId in this.players)` visits the ids
PlayerOrder == <<"p1", "p2">>

Done == [done |-> TRUE]

\* renderAvatar's test of the viewport: the screen position of player lies
\* within 50 pixels of the canvas (cam is in half pixels)
inViewport(player, cam, cv) ==
  /\ 2 * player.x - cam.x >= -100 /\ 2 * player.x - cam.x <= 2 * (cv[1] + 50)
  /\ 2 * player.y - cam.y >= -100 /\ 2 * player.y - cam.y <= 2 * (cv[2] + 50)

\* the ids of pl, in the order of the loop
keysOf(pl) == SelectSeq(PlayerOrder, LAMBDA id : pl[id] # Absent)

\* the loop of render() over the keys ids of the object it iterates.  view
\* holds the image cache, the camera and the canvas, and stale says that
\* this.players is no longer that object.  The result is the ids painted, in
\* order, and Done when the loop has ended or else the pass as it waits for
\* the first image that is not cached.  A key deleted from the object is not
\* visited; a key of a replaced object that the new this.players lacks makes
\* renderAvatar(undefined) throw, which ends the pass.
RECURSIVE renderPlayers(_, _, _, _, _)
renderPlayers(pl, av, view, ids, stale) ==
  IF ids = <<>> THEN [painted |-> <<>>, pass |-> Done]
  ELSE IF pl[Head(ids)] = Absent
  THEN IF stale THEN [painted |-> <<>>, pass |-> Done]
       ELSE renderPlayers(pl, av, view, Tail(ids), stale)
  ELSE LET player == pl[Head(ids)]
           r == resolve(av, player)
           more == renderPlayers(pl, av, view, Tail(ids), stale)
       IN  IF r.skip THEN more
           ELSE IF cacheHas(view.cache, r.cacheKey)
           THEN [painted |-> (IF inViewport(player, view.cam, view.cv)
                              THEN <<Head(ids)>> ELSE <<>>) \o more.painted,
                 pass |-> more.pass]
           ELSE [painted |-> <<>>,
                 pass |-> [done |-> FALSE, id |-> Head(ids), player |-> player,
                           key |-> r.cacheKey, src |-> r.frameData,
                           rest |-> Tail(ids), stale |-> stale,
                           load |-> "pending"]]

\* the waiting passes when the handler has replaced this.players
markStale(waiting) == [i \in 1..Len(waiting) |-> [waiting[i] EXCEPT !.stale = TRUE]]

\* render() after updateCamera: the pass over the players pl, with the
\* camera cam and the canvas cv; waiting are the passes that wait already
startPass(pl, av, waiting, cam, cv) ==
  LET r == renderPlayers(pl, av, [cache |-> imageCache, cam |-> cam, cv |-> cv],
                         keysOf(pl), FALSE)
  IN  /\ painted' = r.painted
      /\ passes' = IF r.pass.done \/ Len(waiting) >= passLimit THEN waiting
                   ELSE Append(waiting, r.pass)

\* render(): the camera follows this.myPlayer (p), then the players are drawn
render(p, pl, av, waiting) ==
  LET cam == updateCamera(p, canvas, [x |-> cameraX, y |-> cameraY])
  IN  /\ cameraX' = cam.x /\ cameraY' = cam.y
      /\ startPass(pl, av, waiting, cam, canvas)

\* the handler does not render
noRender == passes' = passes /\ painted' = <<>>

----------------------------------------------------------------------------
Init ==
  /\ socket = "CONNECTING"
  /\ pressedKeys = [k \in ArrowKeys |-> FALSE]
  /\ lastSentDirection = "null"
  /\ isMoving = FALSE
  /\ myPlayerId = "null"
  /\ players = [id \in PlayerIds |-> Absent]
  /\ avatars = [n \in AvatarNames |-> Absent]
  /\ myPlayer = Null
  /\ canvas \in ViewSizes
  /\ cameraX = 0
  /\ cameraY = 0
  /\ imageCache = {}
  /\ passes = <<>>
  /\ painted = <<>>
  /\ passLimit \in {0, MaxPasses}
  /\ sent = <<>>
  /\ atSend = Absent
  /\ lastEvent = [type |-> "init"]

----------------------------------------------------------------------------
(* Outbound commands (parts of the key handlers) *)

\* this.myPlayer's object takes the fields obj
WriteMyPlayer(obj) ==
  IF myPlayer = Shared
  THEN players' = [players EXCEPT ![myPlayerId] = obj] /\ UNCHANGED myPlayer
  ELSE myPlayer' = Own(obj) /\ UNCHANGED players

\* sendMoveCommand without the check of socket.readyState
sendMoveCommand_NoOpenCheck(keyCode) ==
  LET direction == keyCodeToDirection(keyCode)
      old == MyPlayerObj
      faced == IF old = Absent THEN Absent ELSE [old EXCEPT !.facing = direction]
      newPosition == calculateNewPosition(faced, direction)
  IN  IF direction = "undefined"
      THEN /\ sent' = <<>>
           /\ atSend' = Absent
           /\ UNCHANGED <<lastSentDirection, isMoving, players, myPlayer,
                          cameraX, cameraY>> /\ noRender
      ELSE /\ sent' = <<[action |-> "move", x |-> newPosition.x, y |-> newPosition.y]>>
           /\ atSend' = faced
           /\ lastSentDirection' = direction
           /\ isMoving' = TRUE
           /\ IF old = Absent
              THEN UNCHANGED <<players, myPlayer, cameraX, cameraY>> /\ noRender
              ELSE /\ Explored(updateMyPosition(faced, direction))
                   /\ WriteMyPlayer(updateMyPosition(faced, direction))
                   /\ render(updateMyPosition(faced, direction), players', avatars, passes)

sendMoveCommand(keyCode) ==
  LET direction == keyCodeToDirection(keyCode)
      old == MyPlayerObj
      faced == IF old = Absent THEN Absent ELSE [old EXCEPT !.facing = direction]
      newPosition == calculateNewPosition(faced, direction)
  IN  IF socket # "OPEN" \/ direction = "undefined"
      THEN /\ sent' = <<>>
           /\ atSend' = Absent
           /\ UNCHANGED <<lastSentDirection, isMoving, players, myPlayer,
                          cameraX, cameraY>> /\ noRender
      ELSE /\ sent' = <<[action |-> "move", x |-> newPosition.x, y |-> newPosition.y]>>
           /\ atSend' = faced
           /\ lastSentDirection' = direction
           /\ isMoving' = TRUE
           /\ IF old = Absent
              THEN UNCHANGED <<players, myPlayer, cameraX, cameraY>> /\ noRender
              ELSE /\ Explored(updateMyPosition(faced, direction))
                   /\ WriteMyPlayer(updateMyPosition(faced, direction))
                   /\ render(updateMyPosition(faced, direction), players', avatars, passes)

\* sendStopCommand that leaves isMoving as it is
sendStopCommand_KeepsMoving ==
  IF socket # "OPEN"
  THEN sent' = <<>> /\ atSend' = Absent /\ UNCHANGED <<lastSentDirection, isMoving>>
  ELSE /\ sent' = <<[action |-> "stop"]>>
       /\ atSend' = MyPlayerObj
       /\ lastSentDirection' = "null"
       /\ UNCHANGED isMoving

sendStopCommand ==
  IF socket # "OPEN"
  THEN sent' = <<>> /\ atSend' = Absent /\ UNCHANGED <<lastSentDirection, isMoving>>
  ELSE /\ sent' = <<[action |-> "stop"]>>
       /\ atSend' = MyPlayerObj
       /\ lastSentDirection' = "null"
       /\ isMoving' = FALSE

\* the loop of sendMoveCommandForPressedKeys without its break: the last
\* pressed key of pk is the one whose move is sent last
FirstPressed_NoBreak(pk) ==
  Keys[CHOOSE i \in 1..Len(Keys) :
         pk[Keys[i]] /\ \A j \in (i + 1)..Len(Keys) : ~pk[Keys[j]]]

\* the first key of pk, in pressedKeys' own order, that is pressed
FirstPressed(pk) ==
  Keys[CHOOSE i \in 1..Len(Keys) :
         pk[Keys[i]] /\ \A j \in 1..(i - 1) : ~pk[Keys[j]]]

sendMoveCommandForPressedKeys(pk) == sendMoveCommand(FirstPressed(pk))

----------------------------------------------------------------------------
(* Keyboard handlers *)

\* handleKeyDown without the check for a key that is already pressed
handleKeyDown_NoHeldCheck(code) ==
  /\ lastEvent' = [type |-> "keydown", code |-> code, from |-> MyPlayerObj]
  /\ UNCHANGED <<socket, myPlayerId, avatars, canvas, imageCache, passLimit>>
  /\ IF code \notin ArrowKeys
     THEN /\ sent' = <<>>
          /\ atSend' = Absent
          /\ UNCHANGED <<pressedKeys, lastSentDirection, isMoving, players,
                         myPlayer, cameraX, cameraY>> /\ noRender
     ELSE /\ pressedKeys' = [pressedKeys EXCEPT ![code] = TRUE]
          /\ sendMoveCommand(code)

handleKeyDown(code) ==
  /\ lastEvent' = [type |-> "keydown", code |-> code, from |-> MyPlayerObj]
  /\ UNCHANGED <<socket, myPlayerId, avatars, canvas, imageCache, passLimit>>
  /\ IF code \notin ArrowKeys \/ pressedKeys[code]
     THEN /\ sent' = <<>>
          /\ atSend' = Absent
          /\ UNCHANGED <<pressedKeys, lastSentDirection, isMoving, players,
                         myPlayer, cameraX, cameraY>> /\ noRender
     ELSE /\ pressedKeys' = [pressedKeys EXCEPT ![code] = TRUE]
          /\ sendMoveCommand(code)

handleKeyUp(code) ==
  /\ lastEvent' = [type |-> "keyup", code |-> code, from |-> MyPlayerObj]
  /\ UNCHANGED <<socket, myPlayerId, avatars, canvas, imageCache, passLimit>>
  /\ IF code \notin ArrowKeys
     THEN /\ sent' = <<>>
          /\ atSend' = Absent
          /\ UNCHANGED <<pressedKeys, lastSentDirection, isMoving, players,
                         myPlayer, cameraX, cameraY>> /\ noRender
     ELSE LET pk == [pressedKeys EXCEPT ![code] = FALSE]
              anyKeyPressed == \E k \in ArrowKeys : pk[k]
          IN  /\ pressedKeys' = pk
              /\ IF ~anyKeyPressed
                 THEN /\ sendStopCommand
                      /\ UNCHANGED <<players, myPlayer, cameraX, cameraY>> /\ noRender
                 ELSE sendMoveCommandForPressedKeys(pk)

----------------------------------------------------------------------------
(* Window and socket events *)

\* the resize listener of setupCanvas
Resize(size) ==
  /\ lastEvent' = [type |-> "resize"]
  /\ canvas' = size
  /\ LET cam == updateCamera(MyPlayerObj, size, [x |-> cameraX, y |-> cameraY])
     IN  cameraX' = cam.x /\ cameraY' = cam.y
  /\ startPass(players, avatars, passes,
               updateCamera(MyPlayerObj, size, [x |-> cameraX, y |-> cameraY]), size)
  /\ sent' = <<>>
  /\ atSend' = Absent
  /\ UNCHANGED <<socket, pressedKeys, lastSentDirection, isMoving, myPlayerId,
                 players, avatars, myPlayer, imageCache, passLimit>>

\* socket.onopen: joinGame
SocketOpen ==
  /\ socket = "CONNECTING"
  /\ socket' = "OPEN"
  /\ lastEvent' = [type |-> "open"]
  /\ sent' = <<[action |-> "join_game", username |-> "Jadon"]>>
  /\ atSend' = MyPlayerObj
  /\ UNCHANGED <<pressedKeys, lastSentDirection, isMoving, myPlayerId, players,
                 avatars, myPlayer, canvas, cameraX, cameraY,
                 imageCache, passLimit>>
  /\ noRender

\* socket.onclose / socket.onerror: the connection is gone, the handlers only log
SocketClose ==
  /\ socket # "CLOSED"
  /\ socket' = "CLOSED"
  /\ lastEvent' = [type |-> "close"]
  /\ sent' = <<>>
  /\ atSend' = Absent
  /\ UNCHANGED <<pressedKeys, lastSentDirection, isMoving, myPlayerId, players,
                 avatars, myPlayer, canvas, cameraX, cameraY,
                 imageCache, passLimit>>
  /\ noRender

----------------------------------------------------------------------------
(* Inbound messages *)

\* this.myPlayer after the store entries of the ids in `replaced` have been
\* replaced or deleted: the object it referred to is no longer in the store
Rebind(replaced) ==
  IF myPlayer = Shared /\ myPlayerId \in replaced
  THEN Own(players[myPlayerId])
  ELSE myPlayer

\* this.players = message.players in place of Object.assign
assignPlayers_Replace(pl, msgPlayers) == msgPlayers

\* an assignment that adds the players the store does not have and leaves
\* the entries it has as they are
assignPlayers_KeepKnown(pl, msgPlayers) ==
  [id \in PlayerIds |-> IF pl[id] = Absent THEN msgPlayers[id] ELSE pl[id]]

\* Object.assign(this.players, message.players)
assignPlayers(pl, msgPlayers) ==
  [id \in PlayerIds |-> IF msgPlayers[id] = Absent THEN pl[id] ELSE msgPlayers[id]]

\* delete this.players[message.playerId]
deletePlayer(pl, id) == [pl EXCEPT ![id] = Absent]

\* this.myPlayer = this.players[this.myPlayerId] of the join_game case
lookupMyPlayer(pl, id) == IF pl[id] = Absent THEN Null ELSE Shared

\* the handler ends with a TypeError: message.player or message.avatar is
\* undefined in the player_joined case, message.players is undefined in the
\* players_moved case and myPlayerId is set
throws(message) ==
  \/ /\ message.action = "player_joined"
     /\ "player" \notin DOMAIN message \/ "avatar" \notin DOMAIN message
  \/ /\ message.action = "players_moved"
     /\ "players" \notin DOMAIN message
     /\ myPlayerId # "null"

handleServerMessage(message) ==
  /\ socket = "OPEN"
  /\ lastEvent' = [type |-> "message", message |-> message]
  /\ sent' = <<>>
  /\ atSend' = Absent
  /\ UNCHANGED <<socket, pressedKeys, lastSentDirection, isMoving, canvas,
                 imageCache, passLimit>>
  /\ CASE message.action = "join_game" /\ message.success ->
            /\ myPlayerId' = message.playerId
            /\ players' = message.players
            /\ avatars' = message.avatars
            /\ myPlayer' = lookupMyPlayer(message.players, message.playerId)
       [] message.action = "player_joined" /\ "player" \in DOMAIN message ->
            /\ players' = [players EXCEPT ![message.id] = message.player]
            /\ myPlayer' = Rebind({message.id})
            /\ IF "avatar" \in DOMAIN message
               THEN avatars' = [avatars EXCEPT ![message.name] = message.avatar]
               ELSE UNCHANGED avatars
            /\ UNCHANGED myPlayerId
       [] message.action = "players_moved" /\ "players" \in DOMAIN message ->
            /\ players' = assignPlayers(players, message.players)
            /\ myPlayer' = Rebind({id \in PlayerIds : message.players[id] # Absent})
            /\ UNCHANGED <<myPlayerId, avatars>>
       [] message.action = "player_left" ->
            /\ players' = deletePlayer(players, message.playerId)
            /\ myPlayer' = Rebind({id \in {message.playerId} : players[id] # Absent})
            /\ UNCHANGED <<myPlayerId, avatars>>
       [] OTHER ->
            UNCHANGED <<myPlayerId, players, avatars, myPlayer>>
  /\ IF throws(message)
     THEN UNCHANGED <<cameraX, cameraY>> /\ noRender
     ELSE render(Deref(myPlayer', players', myPlayerId'), players', avatars',
                 IF message.action = "join_game" /\ message.success
                 THEN markStale(passes) ELSE passes)

\* socket.onmessage with a handler that takes a failed acknowledgment as the
\* end of the movement
onmessage_Rollback(message) ==
  IF message.action \in {"move", "stop"} /\ ~message.success
  THEN /\ socket = "OPEN"
       /\ lastEvent' = [type |-> "message", message |-> message]
       /\ sent' = <<>>
       /\ atSend' = Absent
       /\ isMoving' = FALSE
       /\ lastSentDirection' = "null"
       /\ UNCHANGED <<socket, pressedKeys, canvas, imageCache, passLimit,
                      myPlayerId, players, avatars, myPlayer>>
       /\ render(MyPlayerObj, players, avatars, passes)
  ELSE handleServerMessage(message)

\* socket.onmessage
onmessage(message) == handleServerMessage(message)

\* the waiting passes without the i-th
dropPass(waiting, i) ==
  [j \in 1..(Len(waiting) - 1) |-> IF j < i THEN waiting[j] ELSE waiting[j + 1]]

\* img.onload of the image that the waiting pass i loads: renderAvatar goes
\* on after its await, caches the image and draws its player when it is in
\* the viewport, and the pass goes on with the keys that are left
ImageLoaded(i) ==
  /\ i \in 1..Len(passes)
  /\ passes[i].load = "pending"
  /\ LET pass == passes[i]
         cam == [x |-> cameraX, y |-> cameraY]
         cache == cacheSet(imageCache, pass.key, pass.src)
         r == renderPlayers(players, avatars,
                            [cache |-> cache, cam |-> cam, cv |-> canvas],
                            pass.rest, pass.stale)
     IN  /\ imageCache' = cache
         /\ painted' = (IF inViewport(pass.player, cam, canvas)
                        THEN <<pass.id>> ELSE <<>>) \o r.painted
         /\ passes' = IF r.pass.done THEN dropPass(passes, i)
                      ELSE [passes EXCEPT ![i] = r.pass]
         /\ lastEvent' = [type |-> "load", key |-> pass.key, id |-> pass.id]
  /\ sent' = <<>>
  /\ atSend' = Absent
  /\ UNCHANGED <<socket, pressedKeys, lastSentDirection, isMoving, myPlayerId,
                 players, avatars, myPlayer, canvas, cameraX, cameraY, passLimit>>

\* the image that the waiting pass i loads fails to load: loadAvatarImage
\* sets no img.onerror, so its promise stays pending and the pass waits on
ImageFailed(i) ==
  /\ i \in 1..Len(passes)
  /\ passes[i].load = "pending"
  /\ passes' = [passes EXCEPT ![i].load = "error"]
  /\ painted' = <<>>
  /\ lastEvent' = [type |-> "loaderror", key |-> passes[i].key, id |-> passes[i].id]
  /\ sent' = <<>>
  /\ atSend' = Absent
  /\ UNCHANGED <<socket, pressedKeys, lastSentDirection, isMoving, myPlayerId,
                 players, avatars, myPlayer, canvas, cameraX, cameraY,
                 imageCache, passLimit>>

----------------------------------------------------------------------------
(* Specifications.  Each one lets the environment deliver a part of the     *)
(* events the client can receive; the handlers are the same in all.         *)

NoKeyHeld == \A k \in ArrowKeys : ~pressedKeys[k]

\* The keyboard and the channel: every key event in every order, the channel
\* opening and closing, and the three kinds of join response.
InputMessages ==
  {m \in Messages :
     /\ m.action = "join_game"
     /\ m.success => /\ m.playerId = "p1"
                     /\ m.players["p2"] = Absent
                     /\ m.players["p1"] \in {Absent, [x |-> 5, y |-> 5, facing |-> "south", avatar |-> "a1"]}
                     /\ m.avatars["a1"] # Absent}

InitInput == Init /\ canvas = <<800, 600>> /\ passLimit = 0

NextInput ==
  \/ \E code \in KeyCodes : handleKeyDown(code)
  \/ \E code \in KeyCodes : handleKeyUp(code)
  \/ SocketOpen
  \/ SocketClose
  \/ \E message \in InputMessages : onmessage(message)

SpecInput == InitInput /\ [][NextInput]_vars

\* The entity store: every inbound message, and local moves made with one
\* key held at a time.
SyncPositions == {<<5, 5>>, <<2056, -11>>}
SyncPlayers == {p \in MsgPlayers : <<p.x, p.y>> \in SyncPositions}
SyncMessages ==
  {m \in Messages :
     /\ m.action \in {"join_game", "players_moved"} /\ "players" \in DOMAIN m
          => \A id \in PlayerIds : m.players[id] \in SyncPlayers \cup {Absent}
     /\ m.action = "player_joined"
          => m.player \in SyncPlayers /\ m.avatar.frames.east = <<"e1">>
     /\ m.action = "join_game" /\ m.success
          => m.avatars["a1"] # Absent /\ m.avatars["a1"].frames.east = <<"e1">>}

NextSync ==
  \/ \E code \in KeyCodes : NoKeyHeld /\ handleKeyDown(code)
  \/ \E code \in KeyCodes : ~NoKeyHeld /\ handleKeyUp(code)
  \/ SocketOpen
  \/ SocketClose
  \/ \E message \in SyncMessages : onmessage(message)

SpecSync == InitInput /\ [][NextSync]_vars

\* The camera: every viewport size, with the controlled player placed by a
\* join response and moved by one key at a time.
CameraMessages ==
  {m \in Messages :
     /\ m.action = "join_game"
     /\ m.success
     /\ m.playerId = "p1"
     /\ m.players["p2"] = Absent
     /\ m.avatars["a1"] # Absent /\ m.avatars["a1"].frames.east = <<"e1">>}

InitCamera == Init /\ passLimit = 0

NextCamera ==
  \/ \E code \in ArrowKeys : NoKeyHeld /\ handleKeyDown(code)
  \/ \E code \in ArrowKeys : ~NoKeyHeld /\ handleKeyUp(code)
  \/ \E size \in ViewSizes : Resize(size)
  \/ SocketOpen
  \/ \E message \in CameraMessages : onmessage(message)

SpecCamera == InitCamera /\ [][NextCamera]_vars

\* The messages: players that face every way the server names, two
\* definitions of the avatar, players_moved entries that carry a position
\* only, and messages that lack a field their case reads; the local moves
\* are moves up.
StoreFacings == {"south", "east", "west", "left"}
StorePlayers == {[x |-> 5, y |-> 5, facing |-> f, avatar |-> "a1"] : f \in StoreFacings}
\* {x: 7, y: 7}: an entry without facing and avatar
PositionOnly == [x |-> 7, y |-> 7, facing |-> "undefined", avatar |-> "undefined"]
MalformedMessages ==
       [action : {"player_joined"}, id : PlayerIds, player : StorePlayers]
  \cup [action : {"player_joined"}, name : AvatarNames, avatar : AvatarDefs]
  \cup [action : {"players_moved"}]
\* p1 is any of the players, p2 faces left when it is there
StoreMaps(entries) ==
  {m \in [PlayerIds -> entries \cup {Absent}] :
     m["p2"] \in StorePlayers => m["p2"].facing = "left"}
StoreMessages ==
       [action : {"join_game"}, success : {TRUE}, playerId : {"p1"},
        players : StoreMaps(StorePlayers), avatars : AvatarMaps]
  \cup [action : {"player_joined"}, id : PlayerIds, player : StorePlayers,
        name : AvatarNames, avatar : AvatarDefs]
  \cup [action : {"players_moved"},
        players : StoreMaps(StorePlayers \cup {PositionOnly})]
  \cup [action : {"player_left"}, playerId : PlayerIds]
  \cup [action : {"ping"}]
  \cup MalformedMessages

NextStore ==
  \/ NoKeyHeld /\ handleKeyDown("ArrowUp")
  \/ ~NoKeyHeld /\ handleKeyUp("ArrowUp")
  \/ SocketOpen
  \/ \E message \in StoreMessages : onmessage(message)

SpecStore == InitInput /\ [][NextStore]_vars

\* The images: render passes are followed while they wait for an image,
\* and an image may load or fail to load.  A join response places p1,
\* facing south, and p2, facing east, both wearing one of the definitions
\* of the avatar; p2 may leave, and p1 is moved to the left.
RenderMessages ==
       [action : {"join_game"}, success : {TRUE}, playerId : {"p1"},
        players : {[p1 |-> [x |-> 5, y |-> 5, facing |-> "south", avatar |-> "a1"],
                    p2 |-> [x |-> 5, y |-> 5, facing |-> "east", avatar |-> "a1"]]},
        avatars : AvatarMaps \ {[n \in AvatarNames |-> Absent]}]
  \cup [action : {"player_left"}, playerId : {"p2"}]

InitRender == Init /\ canvas = <<800, 600>> /\ passLimit = MaxPasses

RenderKeys == {"ArrowLeft"}

NextRender ==
  \/ \E code \in RenderKeys : NoKeyHeld /\ handleKeyDown(code)
  \/ \E code \in RenderKeys : ~NoKeyHeld /\ handleKeyUp(code)
  \/ SocketOpen
  \/ \E message \in RenderMessages : onmessage(message)
  \/ \E i \in 1..MaxPasses : ImageLoaded(i)
  \/ \E i \in 1..MaxPasses : ImageFailed(i)

SpecRender == InitRender /\ [][NextRender]_vars

\* every image load that has started ends, with the image or with an error
FairLoads == \A i \in 1..MaxPasses : WF_vars(ImageLoaded(i) \/ ImageFailed(i))

SpecRenderFair == SpecRender /\ FairLoads

----------------------------------------------------------------------------
(* Vocabulary of the properties *)

Joined == myPlayerId # "null"
HasMyEntry == Joined /\ players[myPlayerId] # Absent
InBounds(p) == p.x >= 0 /\ p.x <= worldWidth /\ p.y >= 0 /\ p.y <= worldHeight
StoreInBounds == \A id \in PlayerIds : players[id] # Absent => InBounds(players[id])
SamePosition(p, q) == p.x = q.x /\ p.y = q.y

IsMessage(e, action) == e.type = "message" /\ e.message.action = action
IsJoinSuccess(e) == IsMessage(e, "join_game") /\ e.message.success
IsKeyEvent(e) == e.type \in {"keydown", "keyup"} /\ e.code \in ArrowKeys
\* the handler of the last event sent exactly one message, with this action
SentOne(action) == Len(sent) = 1 /\ sent[1].action = action

\* the player objects an inbound message carries
Carried(e) ==
  CASE IsJoinSuccess(e) \/ IsMessage(e, "players_moved") ->
         {e.message.players[id] : id \in PlayerIds} \ {Absent}
    [] IsMessage(e, "player_joined") -> {e.message.player}
    [] OTHER -> {}

----------------------------------------------------------------------------
(* C1: after a successful join, a players_moved message that names the     *)
(* controlled player with a position other than the predicted one leaves   *)
(* both players[myPlayerId] and this.myPlayer at the message's position.   *)
C1_ReconciliationWins ==
  [][LET e == lastEvent'
     IN  (/\ IsMessage(e, "players_moved")
          /\ Joined
          /\ MyPlayerObj # Absent
          /\ e.message.players[myPlayerId] # Absent
          /\ ~SamePosition(e.message.players[myPlayerId], MyPlayerObj))
         => /\ SamePosition(players'[myPlayerId], e.message.players[myPlayerId])
            /\ SamePosition(MyPlayerObj', e.message.players[myPlayerId])]_vars

(* C2: in every state after a successful join, this.myPlayer is the very   *)
(* object the store holds under myPlayerId.                                *)
C2_SameEntity ==
  Joined => \/ myPlayer = Shared
            \/ myPlayer = Null /\ players[myPlayerId] = Absent

(* C3, as claimed: once a successful join response has been handled, the   *)
(* store holds an entry for the controlled player's id in every state.     *)
C3_EntryNeverNull == Joined => players[myPlayerId] # Absent

(* C3, amended: a successful join response whose players map contains the  *)
(* assigned id creates the entry, and every later event keeps an entry     *)
(* under that id, except a player_left naming the id and a successful join *)
(* response that lacks its assigned id.                                    *)
C3_EntryKept ==
  [][LET e == lastEvent'
     IN  (\/ /\ IsJoinSuccess(e)
             /\ e.message.players[e.message.playerId] # Absent
          \/ /\ HasMyEntry
             /\ ~IsJoinSuccess(e)
             /\ ~(IsMessage(e, "player_left") /\ e.message.playerId = myPlayerId))
         => HasMyEntry']_vars

\* a players_moved or player_joined message has replaced the entry of the
\* controlled player, and the entry is there
C3_Witness ==
  /\ HasMyEntry
  /\ \/ /\ IsMessage(lastEvent, "players_moved")
        /\ lastEvent.message.players[myPlayerId] # Absent
        /\ lastEvent.message.players[CHOOSE id \in PlayerIds : id # myPlayerId] = Absent
     \/ /\ IsMessage(lastEvent, "player_joined")
        /\ lastEvent.message.id = myPlayerId

(* C4, as claimed: after any mutation of the store every player's position *)
(* lies in [0, worldWidth] x [0, worldHeight].                             *)
C4_AlwaysInBounds == StoreInBounds

(* C4, amended: a local move keeps the stored positions inside the world,  *)
(* and an inbound message stores the coordinates it carries as they are:   *)
(* the positions lie inside the world after a mutation when they did       *)
(* before it and every position the message carries does.                  *)
C4_InBoundsKept ==
  [][(StoreInBounds /\ \A p \in Carried(lastEvent') : InBounds(p))
       => StoreInBounds']_vars

\* a local move of the store's own entry was cut at the edge y = 0
C4_Witness ==
  /\ lastEvent.type = "keydown"
  /\ lastEvent.code = "ArrowUp"
  /\ lastEvent.from # Absent
  /\ lastEvent.from.y = 5
  /\ SentOne("move")
  /\ myPlayer = Shared
  /\ players[myPlayerId].y = 0
  /\ StoreInBounds

(* C5: while no controlled player exists and the channel is open, a        *)
(* key-down or key-up of a direction key sends no message and changes no   *)
(* entity-store state.                                                     *)
C5_NoPlayerNoOp ==
  [][(/\ IsKeyEvent(lastEvent')
      /\ socket = "OPEN"
      /\ MyPlayerObj = Absent)
     => /\ sent' = <<>>
        /\ UNCHANGED <<players, avatars, myPlayerId, myPlayer>>]_vars

(* C6: when a controlled player exists, the (x, y) of the outbound move    *)
(* message is the controlled player's position right after the local move  *)
(* for that direction.                                                     *)
C6_MoveCarriesNewPosition ==
  (IsKeyEvent(lastEvent) /\ SentOne("move") /\ lastEvent.from # Absent)
    => SamePosition(sent[1], MyPlayerObj)

\* a move from an in-bounds position that the edge y = 0 cut short was sent
C6_Witness ==
  /\ IsKeyEvent(lastEvent)
  /\ SentOne("move")
  /\ lastEvent.from # Absent
  /\ InBounds(lastEvent.from)
  /\ lastEvent.from.y = 5
  /\ sent[1].y = 0

(* C7: with the channel open, a key-down of a direction that is not held   *)
(* sends exactly one move, for that direction; a key-down of a direction   *)
(* that is held sends nothing and changes no state.                        *)
C7_KeyDownIntent ==
  [][LET e == lastEvent'
         direction == keyCodeToDirection(e.code)
         faced == IF MyPlayerObj = Absent THEN Absent
                  ELSE [MyPlayerObj EXCEPT !.facing = direction]
     IN  (e.type = "keydown" /\ e.code \in ArrowKeys /\ socket = "OPEN")
         => IF pressedKeys[e.code]
            THEN /\ sent' = <<>>
                 /\ UNCHANGED <<socket, pressedKeys, lastSentDirection, isMoving,
                                myPlayerId, players, avatars, myPlayer,
                                canvas, cameraX, cameraY>>
            ELSE /\ Len(sent') = 1
                 /\ sent'[1].action = "move"
                 /\ SamePosition(sent'[1], calculateNewPosition(faced, direction))
                 /\ lastSentDirection' = direction
                 /\ pressedKeys' = [pressedKeys EXCEPT ![e.code] = TRUE]]_vars

\* left was pressed while up was held, and the move sent is the one for left
C7_Witness ==
  /\ socket = "OPEN"
  /\ lastEvent.type = "keydown"
  /\ lastEvent.code = "ArrowLeft"
  /\ pressedKeys["ArrowUp"]
  /\ pressedKeys["ArrowLeft"]
  /\ SentOne("move")
  /\ lastSentDirection = "left"
  /\ MyPlayerObj # Absent
  /\ MyPlayerObj.facing = "left"

\* the direction of the first of the keys in the order up, down, left, right
PriorityDirection(held) ==
  IF "ArrowUp" \in held THEN "up"
  ELSE IF "ArrowDown" \in held THEN "down"
  ELSE IF "ArrowLeft" \in held THEN "left"
  ELSE "right"

(* C8: with the channel open, a key-up sends exactly one stop and no move  *)
(* when no direction remains held, and otherwise exactly one move, for the *)
(* first held direction in the order up, down, left, right.                *)
C8_KeyUpIntent ==
  [][LET e == lastEvent'
         remaining == {k \in ArrowKeys : pressedKeys[k] /\ k # e.code}
         direction == PriorityDirection(remaining)
         faced == IF MyPlayerObj = Absent THEN Absent
                  ELSE [MyPlayerObj EXCEPT !.facing = direction]
     IN  (e.type = "keyup" /\ e.code \in ArrowKeys /\ socket = "OPEN")
         => IF remaining = {}
            THEN sent' = <<[action |-> "stop"]>>
            ELSE /\ Len(sent') = 1
                 /\ sent'[1].action = "move"
                 /\ SamePosition(sent'[1], calculateNewPosition(faced, direction))
                 /\ lastSentDirection' = direction]_vars

\* right was released while up and left stayed held: the move is for up
C8_Witness ==
  /\ socket = "OPEN"
  /\ lastEvent.type = "keyup"
  /\ lastEvent.code = "ArrowRight"
  /\ pressedKeys["ArrowUp"]
  /\ ~pressedKeys["ArrowDown"]
  /\ pressedKeys["ArrowLeft"]
  /\ SentOne("move")
  /\ lastSentDirection = "up"
  /\ MyPlayerObj # Absent
  /\ MyPlayerObj.facing = "up"

\* p has reached the bound that direction leads to
AtBoundToward(p, direction) ==
  \/ direction = "up" /\ p.y = 0
  \/ direction = "down" /\ p.y = worldHeight
  \/ direction = "left" /\ p.x = 0
  \/ direction = "right" /\ p.x = worldWidth

(* C9: a local move from an in-bounds position ends at an in-bounds        *)
(* position, and a move toward a bound the coordinate has reached leaves   *)
(* the position as it is.                                                  *)
C9_MovesStayInBounds ==
  (/\ IsKeyEvent(lastEvent)
   /\ SentOne("move")
   /\ lastEvent.from # Absent
   /\ InBounds(lastEvent.from))
  => /\ InBounds(MyPlayerObj)
     /\ AtBoundToward(lastEvent.from, lastSentDirection)
          => SamePosition(MyPlayerObj, lastEvent.from)

\* up was moved from y = 0, and y is still 0
C9_Witness ==
  /\ IsKeyEvent(lastEvent)
  /\ SentOne("move")
  /\ lastSentDirection = "up"
  /\ lastEvent.from # Absent
  /\ lastEvent.from.y = 0
  /\ MyPlayerObj.y = 0

(* C10, as claimed: after every camera update, for every position of the   *)
(* controlled player and every viewport size, the viewport rectangle lies  *)
(* inside the world.  (cameraX, cameraY are in half pixels.)               *)
C10_ViewportInsideWorld ==
  MyPlayerObj # Absent
    => /\ cameraX >= 0 /\ cameraX + 2 * canvas[1] <= 2 * worldWidth
       /\ cameraY >= 0 /\ cameraY + 2 * canvas[2] <= 2 * worldHeight

(* C10, amended: after every camera update with a controlled player, on    *)
(* each axis on which the viewport is no larger than the world the         *)
(* viewport interval lies inside the world; on an axis on which it is      *)
(* larger, the offset is 0 and the viewport reaches past the far edge.     *)
C10_ViewportInsideWhenItFits ==
  MyPlayerObj # Absent
    => /\ canvas[1] <= worldWidth
            => cameraX >= 0 /\ cameraX + 2 * canvas[1] <= 2 * worldWidth
       /\ canvas[2] <= worldHeight
            => cameraY >= 0 /\ cameraY + 2 * canvas[2] <= 2 * worldHeight
       /\ canvas[1] > worldWidth => cameraX = 0
       /\ canvas[2] > worldHeight => cameraY = 0

\* the controlled player stands in the far corner of the world and the
\* viewport ends exactly at the world's far edges
C10_Witness ==
  /\ MyPlayerObj # Absent
  /\ MyPlayerObj.x = worldWidth
  /\ MyPlayerObj.y = worldHeight
  /\ canvas = <<800, 600>>
  /\ cameraX + 2 * canvas[1] = 2 * worldWidth
  /\ cameraY + 2 * canvas[2] = 2 * worldHeight

\* the position one step of moveSpeed from p in the direction, cut at the
\* edges of the world
StepTarget(p, direction) ==
  LET cut(c, size) == IF c < 0 THEN 0 ELSE IF c > size THEN size ELSE c
  IN  CASE direction = "up" -> [x |-> p.x, y |-> cut(p.y - moveSpeed, worldHeight)]
        [] direction = "down" -> [x |-> p.x, y |-> cut(p.y + moveSpeed, worldHeight)]
        [] direction = "left" -> [x |-> cut(p.x - moveSpeed, worldWidth), y |-> p.y]
        [] direction = "right" -> [x |-> cut(p.x + moveSpeed, worldWidth), y |-> p.y]

(* C12: with a controlled player and the channel open, pressing one         *)
(* direction key while none is held puts the local position at the          *)
(* one-step clamped target, sets facing to the direction and sends one move *)
(* carrying the target; releasing the only held key sends exactly one stop, *)
(* clears the moving flag and changes no player's position or facing.       *)
C12_PressThenRelease ==
  [][LET e == lastEvent'
         held == {k \in ArrowKeys : pressedKeys[k]}
         direction == PriorityDirection({e.code})
         target == StepTarget(MyPlayerObj, direction)
     IN  (IsKeyEvent(e) /\ socket = "OPEN" /\ MyPlayerObj # Absent)
         => /\ (e.type = "keydown" /\ held = {})
                 => /\ SamePosition(MyPlayerObj', target)
                    /\ MyPlayerObj'.facing = direction
                    /\ sent' = <<[action |-> "move", x |-> target.x, y |-> target.y]>>
                    /\ isMoving'
            /\ (e.type = "keyup" /\ held = {e.code})
                 => /\ sent' = <<[action |-> "stop"]>>
                    /\ ~isMoving'
                    /\ players' = players
                    /\ MyPlayerObj' = MyPlayerObj]_vars

\* right was pressed at x = 0 and released: the player stands one step to
\* the right, faces right, and the stop has been sent
C12_Witness ==
  /\ lastEvent.type = "keyup"
  /\ lastEvent.code = "ArrowRight"
  /\ SentOne("stop")
  /\ ~isMoving
  /\ myPlayer = Shared
  /\ players[myPlayerId].x = moveSpeed
  /\ players[myPlayerId].facing = "right"

\* the avatar's table has at least one frame for the direction
HasFrames(avatar, direction) ==
  direction \in DOMAIN avatar.frames /\ Len(avatar.frames[direction]) > 0

(* C14: in every state, for every player of the store whose avatar is       *)
(* known, the direction that renderAvatar looks frames up under for the     *)
(* player's facing has a non-empty frame sequence in the avatar's table.    *)
C14_FacingHasFrames ==
  \A id \in PlayerIds :
    (players[id] # Absent /\ knownAvatar(avatars, players[id]))
      => HasFrames(avatars[players[id].avatar],
                   actualDirection(facingOf(players[id])))

(* C15: when the handler of a key event hands a move message to the         *)
(* channel, the controlled player's position is already the predicted one   *)
(* that the message carries.                                                *)
C15_StoreUpdatedBeforeSend ==
  (IsKeyEvent(lastEvent) /\ SentOne("move") /\ atSend # Absent)
    => SamePosition(atSend, sent[1])

(* C17: an inbound move or stop acknowledgment, successful or not, leaves   *)
(* the store, the controlled player's position and facing, the held keys,   *)
(* the moving flag and the direction sent last as they are.                 *)
C17_AckChangesNothing ==
  [][(IsMessage(lastEvent', "move") \/ IsMessage(lastEvent', "stop"))
       => /\ UNCHANGED <<players, avatars, myPlayerId, pressedKeys, isMoving,
                         lastSentDirection>>
          /\ MyPlayerObj' = MyPlayerObj]_vars

\* a failed move acknowledgment arrived while up was held and the
\* controlled player had been moved to the edge y = 0
C17_Witness ==
  /\ IsMessage(lastEvent, "move")
  /\ ~lastEvent.message.success
  /\ pressedKeys["ArrowUp"]
  /\ isMoving
  /\ lastSentDirection = "up"
  /\ myPlayer = Shared
  /\ players[myPlayerId].y = 0
  /\ players[myPlayerId].facing = "up"

(* C18: once the channel is closed it stays closed, and no event handled    *)
(* afterwards sends a message or changes a player of the store or the       *)
(* controlled player's position or facing.                                  *)
C18_InertAfterClose ==
  [][socket = "CLOSED"
       => /\ socket' = "CLOSED"
          /\ sent' = <<>>
          /\ players' = players
          /\ MyPlayerObj' = MyPlayerObj]_vars

\* with the channel closed and a controlled player, right was released
\* while up stayed held: a move for up was due, and nothing was sent
C18_Witness ==
  /\ socket = "CLOSED"
  /\ lastEvent.type = "keyup"
  /\ lastEvent.code = "ArrowRight"
  /\ pressedKeys["ArrowUp"]
  /\ lastEvent.from # Absent
  /\ MyPlayerObj = lastEvent.from
  /\ sent = <<>>

\* what renderAvatar resolves for the store's entry of id, when it gets as
\* far as the cache lookup
Paintable(id) ==
  players[id] # Absent /\ ~resolve(avatars, players[id]).skip
Resolved(id) == resolve(avatars, players[id])

(* C11: for every player of the store, facing left and facing west are     *)
(* looked up under east and mirrored, and every other facing is looked up   *)
(* under itself and not mirrored; of two paintable players with the same    *)
(* avatar and frame index, those with different facings have different      *)
(* cache keys, and those facing east and left have the same frame           *)
(* identifier.                                                              *)
C11_AvatarResolution ==
  /\ \A id \in PlayerIds :
       (players[id] # Absent /\ players[id].facing # "undefined")
         => LET facing == players[id].facing
                direction == facingOf(players[id])
            IN  /\ IF facing \in {"left", "west"}
                   THEN actualDirection(direction) = "east" /\ shouldFlip(direction)
                   ELSE actualDirection(direction) = facing /\ ~shouldFlip(direction)
                /\ Paintable(id)
                     => /\ Resolved(id).actualDirection = actualDirection(direction)
                        /\ Resolved(id).shouldFlip = shouldFlip(direction)
  /\ \A id1, id2 \in PlayerIds :
       (/\ Paintable(id1) /\ Paintable(id2)
        /\ players[id1].avatar = players[id2].avatar)
         => /\ players[id1].facing # players[id2].facing
                 => Resolved(id1).cacheKey # Resolved(id2).cacheKey
            /\ (players[id1].facing = "east" /\ players[id2].facing = "left")
                 => Resolved(id1).frameData = Resolved(id2).frameData

\* the store holds a player facing east and a player facing left that wear
\* the same known avatar
C11_Witness ==
  /\ Paintable("p1") /\ Paintable("p2")
  /\ players["p1"].avatar = players["p2"].avatar
  /\ players["p1"].facing = "east"
  /\ players["p2"].facing = "left"

KnownActions ==
  {"join_game", "player_joined", "players_moved", "player_left", "move", "stop"}
\* the message has an unknown action or lacks a field its case reads
IsBadMessage(e) ==
  /\ e.type = "message"
  /\ e.message.action \notin KnownActions \/ e.message \in MalformedMessages

(* C16: an inbound message with an unknown action, or with a known action   *)
(* and a required field missing, leaves players, avatars, myPlayerId and    *)
(* this.myPlayer as they were.                                              *)
C16_BadMessageIgnored ==
  [][IsBadMessage(lastEvent')
       => /\ UNCHANGED <<players, avatars, myPlayerId>>
          /\ MyPlayerObj' = MyPlayerObj]_vars

(* C19: an avatar definition that the store holds under a name is still     *)
(* there, unchanged, after a player_joined, player_left or players_moved    *)
(* message.                                                                 *)
C19_AvatarsImmutable ==
  [][(\/ IsMessage(lastEvent', "player_joined")
      \/ IsMessage(lastEvent', "player_left")
      \/ IsMessage(lastEvent', "players_moved"))
       => \A n \in AvatarNames : avatars[n] # Absent => avatars'[n] = avatars[n]]_vars

(* C20: after a players_moved message, the entry of every id the message    *)
(* includes has the value of every field the message gives for it, and the  *)
(* entry of every other id is as it was; no entry is removed.               *)
C20_MovedOverwrites ==
  [][LET e == lastEvent'
     IN  (IsMessage(e, "players_moved") /\ "players" \in DOMAIN e.message)
         => \A id \in PlayerIds :
              LET m == e.message.players[id]
              IN  IF m = Absent
                  THEN players'[id] = players[id]
                  ELSE /\ players'[id] # Absent
                       /\ players'[id].x = m.x
                       /\ players'[id].y = m.y
                       /\ m.facing # "undefined" => players'[id].facing = m.facing
                       /\ m.avatar # "undefined" => players'[id].avatar = m.avatar]_vars

\* a players_moved message gave p1 a position only and did not include p2,
\* which is in the store
C20_Witness ==
  /\ IsMessage(lastEvent, "players_moved")
  /\ "players" \in DOMAIN lastEvent.message
  /\ lastEvent.message.players["p1"] = PositionOnly
  /\ lastEvent.message.players["p2"] = Absent
  /\ players["p1"].x = PositionOnly.x
  /\ players["p2"] # Absent

(* C13: for every cache key, at most one render pass waits for an image     *)
(* load of that key: a pass that finds the key not cached while another     *)
(* pass loads it does not start a load of its own.                          *)
C13_OneLoadPerKey ==
  \A i, j \in 1..Len(passes) :
    (i # j /\ passes[i].load = "pending" /\ passes[j].load = "pending")
      => passes[i].key # passes[j].key

\* the handler of event e, which sent the messages snt, has called render()
Rendered(e, snt) ==
  \/ e.type = "message"
  \/ /\ IsKeyEvent(e)
     /\ e.from # Absent
     /\ Len(snt) = 1 /\ snt[1].action = "move"

\* the image of the frame that renderAvatar resolves for the store's entry
\* of id is cached, and the entry is in the viewport
ReadyToPaint(id) ==
  /\ Paintable(id)
  /\ cacheHas(imageCache, Resolved(id).cacheKey)
  /\ inViewport(players[id], [x |-> cameraX, y |-> cameraY], canvas)

(* C21: a render pass paints every player whose frame is cached while the   *)
(* handler that started it runs, whether or not another player of the pass  *)
(* has to wait for its image.                                               *)
C21_CachedPaintedAtOnce ==
  Rendered(lastEvent, sent)
    => \A id \in PlayerIds :
         ReadyToPaint(id) => \E k \in 1..Len(painted) : painted[k] = id

(* C22: a player that player_left has removed from the store is not         *)
(* painted afterwards: every player painted while an event is handled is    *)
(* in the store when the handling ends.                                     *)
C22_RemovedNeverPainted ==
  \A k \in 1..Len(painted) : players[painted[k]] # Absent

\* a render pass waits although the load it waits for has ended
LoadEndedPassWaits == \E i \in 1..Len(passes) : passes[i].load # "pending"

(* C23: when every image load that has started ends, with the image or      *)
(* with an error, every render pass completes: a pass whose load has ended  *)
(* does not wait forever.                                                   *)
C23_PassesComplete == LoadEndedPassWaits ~> ~LoadEndedPassWaits

\* the facings a cache key may have been built from
KeyFacings == {"north", "south", "east", "west", "up", "down", "left", "right"}

(* C24: every entry of the image cache holds the image of the frame         *)
(* identifier that the avatars of the store resolve for the avatar name,    *)
(* facing and frame index of the entry's key.                               *)
C24_CacheMatchesAvatars ==
  \A e \in imageCache :
    \A name \in AvatarNames, facing \in KeyFacings :
      e[1] = cacheKey(name, facing, 0)
        => /\ avatars[name] # Absent
           /\ e[2] = frameData(avatars[name], actualDirection(facing), 0)

(* C25: a stop message is sent only while the client is moving, that is     *)
(* after a move message sent since the last stop, or since the channel      *)
(* opened when there was none.                                              *)
C25_StopOnlyWhileMoving ==
  [][(Len(sent') = 1 /\ sent'[1].action = "stop") => isMoving]_vars

====
